---- MODULE Spec2Model ----
(***************************************************************************)
(* Model of the upload batch tracker of easy-hr's frontend:                *)
(*   - the useFileUpload hook (state `files`, `errors`; processFiles,      *)
(*     removeFile), found in src/frontend/src/components/CandidateList.tsx *)
(*   - the UploadResume component (state `uploadFiles`; handleUpload,      *)
(*     onFilesChange, removeUploadFile, retryUpload), found in             *)
(*     src/frontend/src/components/UploadResume.tsx                        *)
(* The component is modelled on its own: its props onSuccess and onError   *)
(* are opaque notifications whose invocations are recorded in `last`.      *)
(* Every action is one event handler (or one continuation of the awaited   *)
(* request) with all the state updates it queues applied in order.         *)
(* Specification Spec.                                                     *)
(* Model of the response parser, parseLLMResponse and its three grammars,  *)
(* found in src/frontend/src/components/ResultCard.tsx: strings are        *)
(* sequences of characters and the patterns are matched as the regular     *)
(* expressions match them. Specification ParserSpec; ReparseSpec calls the *)
(* parser several times, the calls of every render of ChatView.            *)
(* Model of the Match percentage that ResultCard renders from a            *)
(* candidate's distance. Specification RankSpec.                           *)
(* Model of the search prompt, PromptInputComponent of                     *)
(* src/unnamed/part_002: its status, the requests awaiting a response and  *)
(* the pending reset timers. Specification PromptSpec.                     *)
(***************************************************************************)
EXTENDS Integers, Sequences, FiniteSets, Bags, TLC

\* ---------------------------------------------------------------- bounds
\* Number of handler calls in a run: the clock advances with every handler,
\* so the time that generateId reads takes the values 1..MaxClock.
MaxClock == 4
\* Number of fragments a model response is made of.
MaxChunks == 4
\* Largest whole distance of a candidate, and the largest distance below one
\* in thousandths.
MaxDistance == 250
MaxMilli == 20
\* Number of searches posted by the prompt in a run.
MaxSubmits == 4

\* --------------------------------------------------- options of the hook
\* useFileUpload({maxFiles: 3, maxSize: 500 * 1024, accept: "application/pdf",
\*                multiple: true, ...})
maxFiles == 3
maxSize == 500 * 1024
multiple == TRUE
\* accept.split(',').map(t => t.trim()), each pattern with the branch of the
\* matching rule it takes: ".ext", "major/*" or an exact type.
acceptedTypes == << [kind |-> "exact", text |-> "application/pdf"] >>

\* ------------------------------------------------------------ the inputs
\* `undefined`, for an item's error and an outcome's detail.
Undefined == "undefined"

\* The File objects a user can select: name, size and type, in the order a
\* file dialog lists them.
FileCatalogue ==
    << [name |-> "a.pdf",   size |-> maxSize,     type |-> "application/pdf"],
       [name |-> "b.pdf",   size |-> 1024,        type |-> "application/pdf"],
       [name |-> "c.pdf",   size |-> 1024,        type |-> "application/pdf"],
       [name |-> "big.pdf", size |-> maxSize + 1, type |-> "application/pdf"],
       [name |-> "d.png",   size |-> 1024,        type |-> "image/png"] >>

\* `.${file.name.split('.').pop()?.toLowerCase()}`
fileExtension(name) ==
    CASE name \in {"a.pdf", "b.pdf", "c.pdf", "big.pdf"} -> ".pdf"
      [] name = "d.png" -> ".png"
      [] OTHER -> "." \o name

\* type.slice(0, -2) of a "major/*" pattern is a prefix of fileType
StartsWithMajor(fileType, major) ==
    \/ major = "application" /\ fileType = "application/pdf"
    \/ major = "image" /\ fileType = "image/png"

\* The non-decreasing sequences of at most n numbers of 1..m.
RECURSIVE SortedUpTo(_, _)
SortedUpTo(m, n) ==
    IF n = 0 THEN { <<>> }
    ELSE LET shorter == SortedUpTo(m, n - 1)
             longest == { t \in shorter : Len(t) = n - 1 }
             NotBelow(s) == { y \in 1..m : \A i \in DOMAIN s : s[i] <= y }
         IN  shorter \cup UNION { { Append(s, x) : x \in NotBelow(s) } : s \in longest }

\* The FileLists of one drop or one selection: files of the catalogue in its
\* order, the same file (or two files of one name) any number of times; a
\* FileList may be empty. One file more than the cap can be selected at once,
\* so that the count rule has a file to reject.
IncomingLists ==
    { [i \in DOMAIN s |-> FileCatalogue[s[i]]] :
        s \in SortedUpTo(Len(FileCatalogue), maxFiles + 1) }

Statuses == {"ok", "error"}
Details == {Undefined, "corrupt pdf"}

\* The thrown values of a failed request: an Error with a message, or a
\* value that is not an Error.
Thrown == { [isError |-> TRUE, message |-> "Network Error"],
            [isError |-> FALSE, message |-> Undefined] }

VARIABLES
    files,        \* useFileUpload: const [files, setFiles]
    errors,       \* useFileUpload: const [errors, setErrors]
    uploadFiles,  \* UploadResume: const [uploadFiles, setUploadFiles]
    inflight,     \* the handleUpload calls suspended at `await api.post`
    clock,        \* Date.now() at the last handler call
    last,         \* what the last handler was given and what it called
    response,     \* parseLLMResponse: its argument
    candidates,   \* parseLLMResponse: the array it returned
    grammar,      \* the branch of parseLLMResponse that produced it
    between,      \* the argument of a call between two calls on response
    calls,        \* the number of calls of parseLLMResponse made
    earlier,      \* the array the first call returned
    distances,    \* the candidate.distance of the ResultCards of a list
    matches,      \* the percentages their "Match:" spans show
    status,       \* PromptInputComponent: const [status, setStatus]
    parsedCandidates, \* PromptInputComponent: const [parsedCandidates, ...]
    awaiting,     \* the handleSubmit calls suspended at `await api.post`
    timers,       \* the setTimeout callbacks of handleSubmit not yet run
    submits       \* the number of calls of handleSubmit that posted

uploadVars == <<files, errors, uploadFiles, inflight, clock, last>>
parserVars == <<response, candidates, grammar>>
reparseVars == <<between, calls, earlier>>
rankVars == <<distances, matches>>
promptVars == <<status, parsedCandidates, awaiting, timers, submits>>
vars == <<files, errors, uploadFiles, inflight, clock, last,
          response, candidates, grammar, between, calls, earlier,
          distances, matches,
          status, parsedCandidates, awaiting, timers, submits>>

\* ----------------------------------------------------------- sequences
Range(s) == { s[i] : i \in DOMAIN s }

IdsOf(s) == { s[i].id : i \in DOMAIN s }

\* Array.prototype.filter with f => f.id !== fileId
FilterOutId(s, id) == SelectSeq(s, LAMBDA f : f.id # id)

NoEvent ==
    [kind |-> "mount", accepted |-> 0, rejected |-> 0, target |-> <<>>,
     sent |-> <<>>, req |-> <<>>, results |-> <<>>, thrown |-> <<>>,
     nSuccess |-> 0, errArgs |-> <<>>]

\* ------------------------------------------------------------ the hook

\* The some(...) of processFiles: one accepted pattern against one file.
TypeMatches(pattern, file) ==
    CASE pattern.kind = "ext" -> fileExtension(file.name) = pattern.text
      [] pattern.kind = "prefix" -> StartsWithMajor(file.type, pattern.text)
      [] OTHER -> file.type = pattern.text

TypeAccepted(file) ==
    \E i \in DOMAIN acceptedTypes : TypeMatches(acceptedTypes[i], file)

\* generateId: `file-${Date.now()}-${Math.random()...}`, the random part
\* told apart by the number of the file among those accepted in the call.
generateId(now, n) == << now, n >>

\* Rejection with the size cap taken in KB instead of bytes.
RejectionSizeInKB(cur, newFiles, file) ==
    IF Len(cur) + Len(newFiles) >= maxFiles THEN "count"
    ELSE IF file.size > maxSize * 1024 THEN "size"
    ELSE IF ~TypeAccepted(file) THEN "type"
    ELSE "none"

\* The three rules of processFiles for one file, in the order of the code:
\* the rule that rejects it, "none" when it is accepted.
Rejection(cur, newFiles, file) ==
    IF Len(cur) + Len(newFiles) >= maxFiles THEN "count"
    ELSE IF file.size > maxSize THEN "size"
    ELSE IF ~TypeAccepted(file) THEN "type"
    ELSE "none"

\* The message pushed to newErrors: the rule and the file name it quotes
\* (the count message quotes none).
ErrorMessage(rule, file) ==
    [rule |-> rule, name |-> IF rule = "count" THEN "" ELSE file.name]

\* The forEach of processFiles over Array.from(incomingFiles), from file k on.
RECURSIVE ProcessLoop(_, _, _, _, _, _)
ProcessLoop(cur, incoming, k, newFiles, newErrors, now) ==
    IF k > Len(incoming)
    THEN [newFiles |-> newFiles, newErrors |-> newErrors]
    ELSE LET file == incoming[k]
             rule == Rejection(cur, newFiles, file)
         IN  IF rule # "none"
             THEN ProcessLoop(cur, incoming, k + 1, newFiles,
                              Append(newErrors, ErrorMessage(rule, file)), now)
             ELSE ProcessLoop(cur, incoming, k + 1,
                              Append(newFiles,
                                     [id |-> generateId(now, Len(newFiles) + 1),
                                      file |-> file]),
                              newErrors, now)

\* ------------------------------------------------------- the component

\* MarkUploading that stops after the first item of the call.
MarkUploadingFirstOnly(prev, fileIdsToUpload) ==
    [i \in DOMAIN prev |->
        IF /\ prev[i].id \in fileIdsToUpload
           /\ \A j \in 1..(i - 1) : prev[j].id \notin fileIdsToUpload
        THEN [prev[i] EXCEPT !.status = "uploading", !.error = Undefined]
        ELSE prev[i]]

\* handleUpload, first setUploadFiles: the items of the call become uploading.
MarkUploading(prev, fileIdsToUpload) ==
    [i \in DOMAIN prev |->
        IF prev[i].id \in fileIdsToUpload
        THEN [prev[i] EXCEPT !.status = "uploading", !.error = Undefined]
        ELSE prev[i]]

\* The request handleUpload posts: the ids it closed over (fileIdsToUpload)
\* and the files appended to the form, in order; origin is the caller.
Request(filesToUpload, origin) ==
    [ids |-> [i \in DOMAIN filesToUpload |-> filesToUpload[i].id],
     form |-> [i \in DOMAIN filesToUpload |-> filesToUpload[i].file],
     origin |-> origin]

\* The names of the files of a form.
NamesOf(form) == [i \in DOMAIN form |-> form[i].name]

\* handleUpload up to its await: the new uploadFiles and the request sent.
HandleUpload(prev, filesToUpload, origin) ==
    IF Len(filesToUpload) = 0
    THEN [items |-> prev, sent |-> <<>>]
    ELSE [items |-> MarkUploading(prev, IdsOf(filesToUpload)),
          sent |-> << Request(filesToUpload, origin) >>]

\* onFilesChange, the map to pending items.
NewUploadItems(newFiles) ==
    [i \in DOMAIN newFiles |->
        [id |-> newFiles[i].id, file |-> newFiles[i].file,
         status |-> "pending", error |-> Undefined]]

\* onFilesChange: the items are appended and handed to handleUpload.
OnFilesChange(prev, newFiles, origin) ==
    IF Len(newFiles) > 0
    THEN HandleUpload(prev \o NewUploadItems(newFiles), newFiles, origin)
    ELSE [items |-> prev, sent |-> <<>>]

\* FindResult with the last outcome of the name instead of the first.
FindLastResult(results, name) ==
    IF \E k \in DOMAIN results : results[k].filename = name
    THEN CHOOSE k \in DOMAIN results :
            /\ results[k].filename = name
            /\ \A j \in (k + 1)..Len(results) : results[j].filename # name
    ELSE 0

\* results.find((r) => r.filename === name): its index, 0 for undefined.
FindResult(results, name) ==
    IF \E k \in DOMAIN results : results[k].filename = name
    THEN CHOOSE k \in DOMAIN results :
            /\ results[k].filename = name
            /\ \A j \in 1..(k - 1) : results[j].filename # name
    ELSE 0

\* ApplyResults with every item that has an outcome marked completed.
ApplyResultsIgnoringStatus(prev, results) ==
    [i \in DOMAIN prev |->
        LET k == FindResult(results, prev[i].file.name) IN
        IF k # 0
        THEN [prev[i] EXCEPT !.status = "completed", !.error = results[k].detail]
        ELSE prev[i]]

\* handleUpload, the setUploadFiles after the reply.
ApplyResults(prev, results) ==
    [i \in DOMAIN prev |->
        LET k == FindResult(results, prev[i].file.name) IN
        IF k # 0
        THEN [prev[i] EXCEPT
                !.status = IF results[k].status = "ok" THEN "completed" ELSE "error",
                !.error = results[k].detail]
        ELSE prev[i]]

\* FailedFiles without the filter on the status.
FailedFilesUnfiltered(results) ==
    [k \in DOMAIN results |-> results[k].filename]

\* The text of `Some files failed to upload: ${failedFiles}`: the filenames
\* that join(", ") puts in it, in order.
FailedFiles(results) ==
    LET failed == SelectSeq(results, LAMBDA r : r.status = "error")
    IN  [k \in DOMAIN failed |-> failed[k].filename]

\* handleUpload, the calls of onSuccess after the reply.
SuccessCalls(results) ==
    IF \E k \in DOMAIN results : results[k].status = "ok" THEN 1 ELSE 0

\* ErrorCalls with the second test not under an else.
ErrorCallsWithoutElse(results) ==
    (IF \A k \in DOMAIN results : results[k].status = "error"
     THEN << [text |-> "All uploads failed.", files |-> <<>>] >>
     ELSE <<>>)
    \o
    (IF \E k \in DOMAIN results : results[k].status = "error"
     THEN << [text |-> "Some files failed to upload: ",
              files |-> [k \in DOMAIN results |-> results[k].filename]] >>
     ELSE <<>>)

\* handleUpload, the calls of onError after the reply.
ErrorCalls(results) ==
    IF \A k \in DOMAIN results : results[k].status = "error"
    THEN << [text |-> "All uploads failed.", files |-> <<>>] >>
    ELSE IF \E k \in DOMAIN results : results[k].status = "error"
    THEN << [text |-> "Some files failed to upload: ", files |-> FailedFiles(results)] >>
    ELSE <<>>

\* catch (err): err instanceof Error ? err : new Error("Upload failed")
CaughtError(err) ==
    IF err.isError THEN err.message ELSE "Upload failed"

\* MarkError without the test on the id.
MarkErrorEveryItem(prev, fileIdsToUpload, message) ==
    [i \in DOMAIN prev |-> [prev[i] EXCEPT !.status = "error", !.error = message]]

\* handleUpload, the setUploadFiles of the catch.
MarkError(prev, fileIdsToUpload, message) ==
    [i \in DOMAIN prev |->
        IF prev[i].id \in fileIdsToUpload
        THEN [prev[i] EXCEPT !.status = "error", !.error = message]
        ELSE prev[i]]

\* The replies of the server to a request: outcomes about the files of the
\* form, in the order of the form, for all of them or for the first few
\* (none included); two files of one name give two outcomes of that name.
RECURSIVE RepliesAbout(_)
RepliesAbout(names) ==
    IF Len(names) = 0 THEN { <<>> }
    ELSE LET n == Len(names)
             shorter == RepliesAbout(SubSeq(names, 1, n - 1))
         IN  shorter \cup
             { Append(r, [filename |-> names[n], status |-> s, detail |-> d]) :
                 r \in { t \in shorter : Len(t) = n - 1 }, s \in Statuses, d \in Details }

Replies(req) == RepliesAbout(NamesOf(req.form))

\* ---------------------------------------------------------------- Init
\* The state of each component at its construction.
UploadAtRest ==
    /\ files = <<>>
    /\ errors = <<>>
    /\ uploadFiles = <<>>
    /\ inflight = EmptyBag
    /\ clock = 0
    /\ last = NoEvent

ReparseAtRest ==
    /\ between = <<>>
    /\ calls = 0
    /\ earlier = <<>>

RankAtRest ==
    /\ distances = <<>>
    /\ matches = <<>>

PromptAtRest ==
    /\ status = "ready"
    /\ parsedCandidates = <<>>
    /\ awaiting = 0
    /\ timers = 0
    /\ submits = 0

Init ==
    /\ files = <<>>
    /\ errors = <<>>
    /\ uploadFiles = <<>>
    /\ inflight = EmptyBag
    /\ clock = 0
    /\ last = NoEvent
    /\ response = <<>>
    /\ candidates = <<>>
    /\ grammar = "none"
    /\ ReparseAtRest
    /\ RankAtRest
    /\ PromptAtRest

Send(sent) ==
    IF sent = <<>> THEN inflight ELSE inflight (+) SetToBag({sent[1]})

\* handleDrop / handleFileChange -> processFiles(incomingFiles). The drop
\* area and the input are rendered only while uploadFiles is empty.
processFiles ==
    /\ Len(uploadFiles) = 0
    /\ clock < MaxClock
    /\ clock' = clock + 1
    /\ UNCHANGED <<parserVars, reparseVars, rankVars, promptVars>>
    /\ \E incoming \in IncomingLists :
        LET r == ProcessLoop(files, incoming, 1, <<>>, <<>>, clock + 1)
            updatedFiles == IF multiple THEN files \o r.newFiles ELSE r.newFiles
            up == OnFilesChange(uploadFiles, updatedFiles, "intake")
        IN  /\ errors' = r.newErrors
            /\ IF Len(r.newErrors) > 0
               THEN /\ UNCHANGED <<files, uploadFiles, inflight>>
                    /\ last' = [NoEvent EXCEPT !.kind = "intake",
                                               !.accepted = Len(r.newFiles),
                                               !.rejected = Len(r.newErrors)]
               ELSE /\ files' = updatedFiles
                    /\ uploadFiles' = up.items
                    /\ inflight' = Send(up.sent)
                    /\ last' = [NoEvent EXCEPT !.kind = "intake",
                                               !.accepted = Len(r.newFiles),
                                               !.sent = up.sent]

\* removeUploadFile(id): removeFile(id), whose updater calls onFilesChange
\* with the files that remain, then the filter of uploadFiles.
removeUploadFile ==
    /\ clock < MaxClock
    /\ clock' = clock + 1
    /\ UNCHANGED <<parserVars, reparseVars, rankVars, promptVars>>
    /\ \E id \in IdsOf(uploadFiles) :
        LET updatedFiles == FilterOutId(files, id)
            up == OnFilesChange(uploadFiles, updatedFiles, "remove")
        IN  /\ files' = updatedFiles
            /\ uploadFiles' = FilterOutId(up.items, id)
            /\ inflight' = Send(up.sent)
            /\ last' = [NoEvent EXCEPT !.kind = "remove", !.target = id,
                                       !.sent = up.sent]
            /\ UNCHANGED errors

\* retryUpload(uploadFile): the button is rendered for an item in error.
retryUpload ==
    /\ clock < MaxClock
    /\ clock' = clock + 1
    /\ UNCHANGED <<parserVars, reparseVars, rankVars, promptVars>>
    /\ \E i \in DOMAIN uploadFiles :
        LET uploadFile == uploadFiles[i]
            up == HandleUpload(uploadFiles, << uploadFile >>, "retry")
        IN  /\ uploadFile.status = "error"
            /\ uploadFiles' = up.items
            /\ inflight' = Send(up.sent)
            /\ last' = [NoEvent EXCEPT !.kind = "retry", !.target = uploadFile.id,
                                       !.sent = up.sent]
            /\ UNCHANGED <<files, errors>>

\* handleUpload after `await api.post` resolves with response.data.results.
uploadReply ==
    /\ clock < MaxClock
    /\ clock' = clock + 1
    /\ UNCHANGED <<parserVars, reparseVars, rankVars, promptVars>>
    /\ \E req \in BagToSet(inflight) : \E results \in Replies(req) :
        /\ uploadFiles' = ApplyResults(uploadFiles, results)
        /\ inflight' = inflight (-) SetToBag({req})
        /\ last' = [NoEvent EXCEPT !.kind = "reply", !.req = << req >>,
                                   !.results = results,
                                   !.nSuccess = SuccessCalls(results),
                                   !.errArgs = ErrorCalls(results)]
        /\ UNCHANGED <<files, errors>>

\* handleUpload after `await api.post` rejects: the catch.
uploadFailure ==
    /\ clock < MaxClock
    /\ clock' = clock + 1
    /\ UNCHANGED <<parserVars, reparseVars, rankVars, promptVars>>
    /\ \E req \in BagToSet(inflight) : \E err \in Thrown :
        /\ uploadFiles' = MarkError(uploadFiles, Range(req.ids), CaughtError(err))
        /\ inflight' = inflight (-) SetToBag({req})
        /\ last' = [NoEvent EXCEPT !.kind = "failure", !.req = << req >>,
                                   !.thrown = << err >>,
                                   !.errArgs = << [text |-> CaughtError(err),
                                                   files |-> <<>>] >>]
        /\ UNCHANGED <<files, errors>>

Next ==
    \/ processFiles
    \/ removeUploadFile
    \/ retryUpload
    \/ uploadReply
    \/ uploadFailure

Spec == Init /\ [][Next]_vars

\* ================================================== the response parser
\* A string is the sequence of its characters.

\* \s of a regular expression and of String.prototype.trim
WhiteSpace == { " ", "\n", "\t", "\r" }

\* [A-Z]
UpperCase ==
    { "A", "B", "C", "D", "E", "F", "G", "H", "I", "J", "K", "L", "M",
      "N", "O", "P", "Q", "R", "S", "T", "U", "V", "W", "X", "Y", "Z" }

\* The literals of the patterns.
Bold == << "*", "*" >>
BulletBold == << "-", " ", "*", "*" >>
BoldColon == << "*", "*", ":" >>
NewLine == << "\n" >>
Blank == << " " >>
Placeholder == << "C", "a", "n", "d", "i", "d", "a", "t", "e" >>
ThisCandidateHas ==
    << "T", "h", "i", "s", " ", "c", "a", "n", "d", "i", "d", "a", "t", "e",
       " ", "h", "a", "s" >>

\* The pieces the model responses are made of: two bold all-caps headers, a
\* bold marker, an upper-case and a lower-case word, a bullet, a colon, a
\* blank and a line break.
Fragments ==
    { << "*", "*", "J", "O", "*", "*" >>,
      << "*", "*", "A", "L", "*", "*" >>,
      Bold,
      << "J", "O" >>,
      << "a", "b" >>,
      << "-", " " >>,
      << ":" >>,
      Blank,
      NewLine }

\* The responses of at most n fragments.
RECURSIVE TextsOf(_)
TextsOf(n) ==
    IF n = 0 THEN { <<>> }
    ELSE LET shorter == TextsOf(n - 1)
         IN  shorter \cup { t \o f : t \in shorter, f \in Fragments }

Texts == TextsOf(MaxChunks)

\* The least and the greatest number of a non-empty set of numbers.
Least(S) == CHOOSE x \in S : \A y \in S : x <= y
Greatest(S) == CHOOSE x \in S : \A y \in S : y <= x

\* pat occurs in text from the character of index q (from 1) on.
OccursAt(text, pat, q) ==
    /\ q >= 1
    /\ q + Len(pat) - 1 <= Len(text)
    /\ \A i \in DOMAIN pat : text[q + i - 1] = pat[i]

\* String.prototype.includes
Includes(text, pat) == \E q \in 1..(Len(text) + 1) : OccursAt(text, pat, q)

\* String.prototype.trim
Trim(text) ==
    LET inked == { i \in DOMAIN text : text[i] \notin WhiteSpace }
    IN  IF inked = {} THEN <<>> ELSE SubSeq(text, Least(inked), Greatest(inked))

\* The end of the longest run of characters of Class that starts at index
\* from: from - 1 when the run is empty.
RunEnd(text, from, Class) ==
    LET stops == { i \in from..Len(text) : text[i] \notin Class }
    IN  IF stops = {} THEN Len(text) ELSE Least(stops) - 1

\* /\*\*[A-Z][A-Z\s]+\*\*/ matches at index q. The class of the repetition
\* holds no asterisk, so the repetition can only be the whole run.
HeaderAt(text, q) ==
    /\ OccursAt(text, Bold, q)
    /\ q + 2 <= Len(text)
    /\ text[q + 2] \in UpperCase
    /\ LET e == RunEnd(text, q + 3, UpperCase \cup WhiteSpace)
       IN  e >= q + 3 /\ OccursAt(text, Bold, e + 1)

\* section.match(/\*\*([A-Z][A-Z\s]+)\*\*/): nameMatch[1].trim() of the
\* leftmost match, "" when there is none.
BoldName(text) ==
    LET starts == { q \in DOMAIN text : HeaderAt(text, q) }
    IN  IF starts = {} THEN <<>>
        ELSE LET q == Least(starts)
             IN  Trim(SubSeq(text, q + 2,
                             RunEnd(text, q + 3, UpperCase \cup WhiteSpace)))

\* String.prototype.split with the lookahead /(?=\*\*[A-Z][A-Z\s]+\*\*)/g:
\* the loop of the split over the offsets p (start of the piece) and q (the
\* offset tried), both from 0; an empty match at the start of the piece does
\* not split.
RECURSIVE SplitLoop(_, _, _, _)
SplitLoop(text, p, q, pieces) ==
    IF q >= Len(text) THEN Append(pieces, SubSeq(text, p + 1, Len(text)))
    ELSE IF ~HeaderAt(text, q + 1) \/ q = p
         THEN SplitLoop(text, p, q + 1, pieces)
         ELSE SplitLoop(text, q, q, Append(pieces, SubSeq(text, p + 1, q)))

SplitAtHeaders(text) ==
    IF Len(text) = 0 THEN << <<>> >> ELSE SplitLoop(text, 0, 0, <<>>)

\* section.split("\n")
RECURSIVE SplitLines(_)
SplitLines(text) ==
    LET breaks == { i \in DOMAIN text : text[i] = "\n" }
    IN  IF breaks = {} THEN << text >>
        ELSE << SubSeq(text, 1, Least(breaks) - 1) >>
             \o SplitLines(SubSeq(text, Least(breaks) + 1, Len(text)))

\* lines.join(" ")
RECURSIVE JoinWithBlank(_)
JoinWithBlank(lines) ==
    IF Len(lines) = 0 THEN <<>>
    ELSE IF Len(lines) = 1 THEN lines[1]
    ELSE lines[1] \o Blank \o JoinWithBlank(Tail(lines))

\* parseCandidateSection, "everything else as additional info".
OtherLines(section) ==
    Trim(JoinWithBlank(SelectSeq(SplitLines(section),
            LAMBDA line : Trim(line) # <<>> /\ ~Includes(line, Bold))))

\* response.match(/This candidate has[^.]*\./): the match, "" for none.
AdditionalSentence(text) ==
    LET starts == { q \in DOMAIN text :
                      /\ OccursAt(text, ThisCandidateHas, q)
                      /\ \E d \in (q + Len(ThisCandidateHas))..Len(text) : text[d] = "." }
    IN  IF starts = {} THEN <<>>
        ELSE LET q == Least(starts)
                 dot == Least({ d \in (q + Len(ThisCandidateHas))..Len(text) :
                                  text[d] = "." })
             IN  SubSeq(text, q, dot)

\* response.match(/([A-Z][A-Z\s]{2,})/): nameMatch[1].trim() of the leftmost
\* match, "" when there is none.
CapitalRun(text) ==
    LET starts == { q \in DOMAIN text :
                      /\ text[q] \in UpperCase
                      /\ RunEnd(text, q + 1, UpperCase \cup WhiteSpace) >= q + 2 }
    IN  IF starts = {} THEN <<>>
        ELSE LET q == Least(starts)
             IN  Trim(SubSeq(text, q, RunEnd(text, q + 1, UpperCase \cup WhiteSpace)))

\* The records are kept to the two fields that parseLLMResponse tests or that
\* hold text outside the labelled fields: name and additionalInfo.

parseCandidateSection(section) ==
    [name |-> BoldName(section), additionalInfo |-> OtherLines(section)]

parseIndentedFormat(text) ==
    [name |-> BoldName(text), additionalInfo |-> AdditionalSentence(text)]

parseFallbackFormat(text) ==
    [name |-> IF CapitalRun(text) # <<>> THEN CapitalRun(text) ELSE Placeholder,
     additionalInfo |-> text]

\* The branch of parseLLMResponse that a response takes.
Grammar(text) ==
    IF Includes(text, BulletBold) /\ Includes(text, BoldColon) THEN "indented"
    ELSE IF Includes(text, Bold) /\ Includes(text, Bold) THEN "sections"
    ELSE "fallback"

\* if (candidate.name) candidates.push(candidate), without the test.
PushAlways(found, candidate) == Append(found, candidate)

\* if (candidate.name) candidates.push(candidate)
PushIfNamed(found, candidate) ==
    IF candidate.name # <<>> THEN Append(found, candidate) ELSE found

\* sections.forEach(...) from section k on.
RECURSIVE EachSection(_, _, _)
EachSection(sections, k, found) ==
    IF k > Len(sections) THEN found
    ELSE IF Trim(sections[k]) # <<>>
         THEN EachSection(sections, k + 1,
                          PushIfNamed(found, parseCandidateSection(sections[k])))
         ELSE EachSection(sections, k + 1, found)

\* parseLLMResponse that tries the next grammar when one gives no record.
parseLLMResponseRetrying(text) ==
    LET indented == PushIfNamed(<<>>, parseIndentedFormat(text))
        sections == EachSection(SplitAtHeaders(text), 1, <<>>)
        fallback == PushIfNamed(<<>>, parseFallbackFormat(text))
    IN  CASE Grammar(text) = "indented" /\ indented # <<>> -> indented
          [] Grammar(text) \in {"indented", "sections"} /\ sections # <<>> -> sections
          [] OTHER -> fallback

parseLLMResponse(text) ==
    CASE Grammar(text) = "indented" -> PushIfNamed(<<>>, parseIndentedFormat(text))
      [] Grammar(text) = "sections" -> EachSection(SplitAtHeaders(text), 1, <<>>)
      [] OTHER -> PushIfNamed(<<>>, parseFallbackFormat(text))

\* A text is about to be handed to parseLLMResponse. The function is
\* exported and takes any string; ChatView, its caller in this repository,
\* hands it the message contents that include "**".
ParserInit ==
    /\ files = <<>>
    /\ errors = <<>>
    /\ uploadFiles = <<>>
    /\ inflight = EmptyBag
    /\ clock = 0
    /\ last = NoEvent
    /\ response \in Texts
    /\ candidates = <<>>
    /\ grammar = "none"
    /\ ReparseAtRest
    /\ RankAtRest
    /\ PromptAtRest

\* The call parseLLMResponse(response).
parseMessage ==
    /\ grammar = "none"
    /\ candidates' = parseLLMResponse(response)
    /\ grammar' = Grammar(response)
    /\ UNCHANGED <<response, uploadVars, reparseVars, rankVars, promptVars>>

ParserNext == parseMessage

ParserSpec == ParserInit /\ [][ParserNext]_vars

\* ------------------------------------------------ calls one after another
\* The texts handed to parseLLMResponse between two calls on one text.
BetweenTexts == TextsOf(1)

\* CallResult with the records pushed onto the array of the call before.
CallResultOntoKept(kept, text) ==
    kept \o parseLLMResponse(text)

\* What a call returns when the call before returned kept: the function
\* starts from `const candidates = []`, builds its patterns anew and reads
\* nothing but its argument.
CallResult(kept, text) ==
    parseLLMResponse(text)

\* Three calls are about to be made: on response, on between, on response.
ReparseInit ==
    /\ UploadAtRest
    /\ RankAtRest
    /\ PromptAtRest
    /\ response \in TextsOf(MaxChunks - 1)
    /\ between \in BetweenTexts
    /\ candidates = <<>>
    /\ grammar = "none"
    /\ calls = 0
    /\ earlier = <<>>

\* The next of the three calls.
parseCall ==
    /\ calls < 3
    /\ LET text == IF calls = 1 THEN between ELSE response
       IN  /\ candidates' = CallResult(candidates, text)
           /\ grammar' = Grammar(text)
    /\ earlier' = IF calls = 0 THEN candidates' ELSE earlier
    /\ calls' = calls + 1
    /\ UNCHANGED <<response, between, uploadVars, rankVars, promptVars>>

ReparseNext == parseCall

ReparseSpec == ReparseInit /\ [][ReparseNext]_vars

\* ================================================== the match percentage
\* A distance is a number of thousandths.
Thousand == 1000

\* The distances of the candidates: the thousandths up to MaxMilli and the
\* whole numbers up to MaxDistance.
Distances ==
    (0..MaxMilli) \cup { Thousand * u : u \in 0..MaxDistance }

\* toFixed(0) with the fraction dropped.
Truncated(num, den) ==
    num \div den

\* toFixed(0) of num / den for a positive den: the nearest integer, the
\* larger of the two when num / den lies half way.
ToFixed0(num, den) ==
    (2 * num + den) \div (2 * den)

\* MatchPercentage with the distance for numerator.
MatchPercentageOfDistance(distance) ==
    ToFixed0(100 * distance, Thousand + distance)

\* ((1 / (1 + candidate.distance)) * 100).toFixed(0)
MatchPercentage(distance) ==
    ToFixed0(100 * Thousand, Thousand + distance)

\* A list of two candidates is about to be rendered.
RankInit ==
    /\ UploadAtRest
    /\ ReparseAtRest
    /\ PromptAtRest
    /\ response = <<>>
    /\ candidates = <<>>
    /\ grammar = "none"
    /\ distances \in { << d1, d2 >> : d1 \in Distances, d2 \in Distances }
    /\ matches = <<>>

\* The ResultCard of each candidate is rendered.
renderResultCards ==
    /\ matches = <<>>
    /\ matches' = [i \in DOMAIN distances |-> MatchPercentage(distances[i])]
    /\ UNCHANGED <<distances, uploadVars, parserVars, reparseVars, promptVars>>

RankNext == renderResultCards

RankSpec == RankInit /\ [][RankNext]_vars

\* ============================================================ the prompt
\* The messages PromptInput hands to onSubmit: text and number of files.
Messages ==
    { [text |-> "", files |-> 0],
      [text |-> "python developer", files |-> 0],
      [text |-> "", files |-> 1] }

\* res.data.result of a search: arrays of candidate objects, by their ids.
SearchResults == { <<>>, << 1 >>, << 1, 2 >> }

PromptInit ==
    /\ UploadAtRest
    /\ ReparseAtRest
    /\ RankAtRest
    /\ response = <<>>
    /\ candidates = <<>>
    /\ grammar = "none"
    /\ PromptAtRest

\* handleSubmit(message) up to its await: nothing for a message with no text
\* and no attachment, else the status is set and the search is posted.
handleSubmit ==
    \E message \in Messages :
        LET hasText == message.text # ""
            hasAttachments == message.files # 0
        IN  IF ~(hasText \/ hasAttachments)
            THEN UNCHANGED vars
            ELSE /\ submits < MaxSubmits
                 /\ submits' = submits + 1
                 /\ status' = "submitted"
                 /\ parsedCandidates' = <<>>
                 /\ awaiting' = awaiting + 1
                 /\ UNCHANGED <<timers, uploadVars, parserVars, reparseVars, rankVars>>

\* handleSubmit after `await api.post` resolves.
searchReply ==
    /\ awaiting > 0
    /\ \E result \in SearchResults : parsedCandidates' = result
    /\ status' = "streaming"
    /\ timers' = timers + 1
    /\ awaiting' = awaiting - 1
    /\ UNCHANGED <<submits, uploadVars, parserVars, reparseVars, rankVars>>

\* handleSubmit after `await api.post` rejects: the catch.
searchFailure ==
    /\ awaiting > 0
    /\ status' = "error"
    /\ timers' = timers + 1
    /\ awaiting' = awaiting - 1
    /\ UNCHANGED <<parsedCandidates, submits, uploadVars, parserVars,
                   reparseVars, rankVars>>

\* A callback of setTimeout runs: () => setStatus("ready").
resetTimer ==
    /\ timers > 0
    /\ status' = "ready"
    /\ timers' = timers - 1
    /\ UNCHANGED <<parsedCandidates, awaiting, submits, uploadVars, parserVars,
                   reparseVars, rankVars>>

PromptNext ==
    \/ handleSubmit
    \/ searchReply
    \/ searchFailure
    \/ resetTimer

PromptSpec == PromptInit /\ [][PromptNext]_vars

\* ======================================================== the claims
\* ----------------------------------------------------------- helpers
\* The request the last reply or failure answered.
LastReq == last.req[1]

\* The ids of the items of a request.
ReqIds(req) == Range(req.ids)

\* The items of uploadFiles that the step does not dismiss, in their order:
\* every handler keeps them at the front of uploadFiles', in this order.
Survivors(items, liveIds) == SelectSeq(items, LAMBDA it : it.id \in liveIds)

\* The number of indices of a sequence that satisfy a test.
Count(s, Test(_)) == Cardinality({ i \in DOMAIN s : Test(s[i]) })

\* The edges of the status machine of an UploadItem.
StatusEdges ==
    { << "pending", "uploading" >>, << "uploading", "completed" >>,
      << "uploading", "error" >>, << "error", "uploading" >> }

\* C1: in every step, every item that stays in the active set keeps its
\* status or moves along one of the edges pending->uploading,
\* uploading->completed, uploading->error, error->uploading, and no request
\* sent by the step carries an item that was completed.
C1_StatusEdgesOnly ==
    [][ LET kept == Survivors(uploadFiles, IdsOf(files'))
        IN  /\ Len(kept) <= Len(uploadFiles')
            /\ \A i \in DOMAIN kept :
                /\ uploadFiles'[i].id = kept[i].id
                /\ \/ uploadFiles'[i].status = kept[i].status
                   \/ << kept[i].status, uploadFiles'[i].status >> \in StatusEdges
                /\ kept[i].status = "completed" =>
                      \A k \in DOMAIN last'.sent :
                          kept[i].id \notin ReqIds(last'.sent[k])
      ]_vars

\* Every item of another id is the same before and after the step.
OthersUnchanged(id) ==
    /\ Len(uploadFiles') = Len(uploadFiles)
    /\ \A i \in DOMAIN uploadFiles :
          uploadFiles[i].id # id => uploadFiles'[i] = uploadFiles[i]

\* C2: a retry of one item in error moves that item to uploading, and the
\* reply (with an outcome for its file) or the failure of that singleton
\* request moves it to completed or error; in both steps the status and the
\* error message of every other item are unchanged.
C2_RetryTouchesOneItem ==
    [][ /\ last'.kind = "retry" =>
            /\ OthersUnchanged(last'.target)
            /\ \A i \in DOMAIN uploadFiles' :
                  uploadFiles'[i].id = last'.target =>
                      uploadFiles'[i].status = "uploading"
        /\ ( /\ last'.kind \in {"reply", "failure"}
             /\ last'.req[1].origin = "retry"
             /\ last'.kind = "reply" => Len(last'.results) = 1 ) =>
            /\ OthersUnchanged(last'.req[1].ids[1])
            /\ \A i \in DOMAIN uploadFiles' :
                  uploadFiles'[i].id = last'.req[1].ids[1] =>
                      uploadFiles'[i].status \in {"completed", "error"}
      ]_vars

\* The reply of the last step carries one outcome per file of the form.
OneOutcomePerFile ==
    /\ last.kind = "reply"
    /\ Len(last.results) = Len(LastReq.form)
    /\ \A k \in DOMAIN last.results :
          last.results[k].filename = LastReq.form[k].name

\* The status an outcome gives to the item of its file.
StatusFor(outcome) == IF outcome.status = "ok" THEN "completed" ELSE "error"

\* The items of uploadFiles that belong to the request.
BatchItems(req) == SelectSeq(uploadFiles, LAMBDA it : it.id \in ReqIds(req))

\* C3 as stated: after a reply with one outcome per submitted file, each item
\* of the batch has the status of the outcome of its file, and the batch holds
\* as many completed items as there are "ok" outcomes and as many items in
\* error as there are "error" outcomes.
C3_StatusPerOutcome ==
    OneOutcomePerFile =>
        /\ \A k \in DOMAIN LastReq.ids : \A i \in DOMAIN uploadFiles :
              uploadFiles[i].id = LastReq.ids[k] =>
                  uploadFiles[i].status = StatusFor(last.results[k])
        /\ Count(BatchItems(LastReq), LAMBDA it : it.status = "completed")
              = Count(last.results, LAMBDA r : r.status = "ok")
        /\ Count(BatchItems(LastReq), LAMBDA it : it.status = "error")
              = Count(last.results, LAMBDA r : r.status = "error")

\* The files of the form have pairwise different names.
DistinctNames(form) ==
    \A j, k \in DOMAIN form : j # k => form[j].name # form[k].name

\* C3 as amended: after a reply with one outcome per submitted file, when the
\* names of the submitted files are pairwise different, each item of the batch
\* that is still in the active set has the status of the outcome of its file;
\* and when every item of the batch is in the active set exactly once, the
\* completed items are as many as the "ok" outcomes and the items in error as
\* many as the "error" outcomes.
C3_StatusPerOutcomeDistinctNames ==
    (OneOutcomePerFile /\ DistinctNames(LastReq.form)) =>
        /\ \A k \in DOMAIN LastReq.ids : \A i \in DOMAIN uploadFiles :
              uploadFiles[i].id = LastReq.ids[k] =>
                  uploadFiles[i].status = StatusFor(last.results[k])
        /\ (\A k \in DOMAIN LastReq.ids :
               Count(uploadFiles, LAMBDA it : it.id = LastReq.ids[k]) = 1) =>
              /\ Count(BatchItems(LastReq), LAMBDA it : it.status = "completed")
                    = Count(last.results, LAMBDA r : r.status = "ok")
              /\ Count(BatchItems(LastReq), LAMBDA it : it.status = "error")
                    = Count(last.results, LAMBDA r : r.status = "error")

\* C3, witness: three files of different names were submitted together, the
\* reply was [ok, error, ok], and the three items are completed, error,
\* completed.
C3_Witness ==
    /\ OneOutcomePerFile
    /\ DistinctNames(LastReq.form)
    /\ Len(LastReq.form) = 3
    /\ [k \in 1..3 |-> last.results[k].status] = << "ok", "error", "ok" >>
    /\ Len(uploadFiles) = 3
    /\ [i \in 1..3 |-> uploadFiles[i].id] = LastReq.ids
    /\ [i \in 1..3 |-> uploadFiles[i].status] = << "completed", "error", "completed" >>

\* The message of a failed request: the message of the Error thrown, and
\* "Upload failed" for a thrown value that is no Error.
FailureMessage(thrown) ==
    IF thrown.isError THEN thrown.message ELSE "Upload failed"

\* C4: when the request fails, every item of the submitted set is in error
\* with the message of the failure, onError is called once with that failure,
\* onSuccess is not called, and every other item is as it was.
C4_FailureMarksTheBatch ==
    [][ last'.kind = "failure" =>
          LET req == last'.req[1]
              message == FailureMessage(last'.thrown[1])
          IN  /\ Len(uploadFiles') = Len(uploadFiles)
              /\ \A i \in DOMAIN uploadFiles :
                    IF uploadFiles[i].id \in ReqIds(req)
                    THEN /\ uploadFiles'[i].id = uploadFiles[i].id
                         /\ uploadFiles'[i].status = "error"
                         /\ uploadFiles'[i].error = message
                    ELSE uploadFiles'[i] = uploadFiles[i]
              /\ last'.errArgs = << [text |-> message, files |-> <<>>] >>
              /\ last'.nSuccess = 0
      ]_vars

\* C4, witness: a request has failed, an item of it is in error with the
\* message, and the active set holds an item of another request, completed.
C4_Witness ==
    /\ last.kind = "failure"
    /\ \E i, j \in DOMAIN uploadFiles :
          /\ uploadFiles[i].id \in ReqIds(LastReq)
          /\ uploadFiles[i].status = "error"
          /\ uploadFiles[i].error = "Network Error"
          /\ uploadFiles[j].id \notin ReqIds(LastReq)
          /\ uploadFiles[j].status = "completed"

\* A file that passes the size cap and the accepted-type rule of the options.
WithinCaps(file) == file.size <= 500 * 1024 /\ file.type = "application/pdf"

\* C5: no file over the size cap or of another type than PDF, and no file
\* beyond the cap of three, is among the accepted files, in the active set
\* (so none is uploading) or in the form of a request.
C5_RejectedNeverUploaded ==
    /\ Len(files) <= 3
    /\ Cardinality(IdsOf(uploadFiles)) <= 3
    /\ \A i \in DOMAIN files : WithinCaps(files[i].file)
    /\ \A i \in DOMAIN uploadFiles : WithinCaps(uploadFiles[i].file)
    /\ \A req \in BagToSet(inflight) :
          /\ Len(req.form) <= 3
          /\ \A k \in DOMAIN req.form : WithinCaps(req.form[k])

\* C5, witness: an intake held a file over the size cap, which was rejected,
\* and nothing is in the active set or in flight.
C5_Witness ==
    /\ last.kind = "intake"
    /\ \E k \in DOMAIN errors : errors[k].rule = "size"
    /\ \E k \in DOMAIN errors : errors[k].rule = "type"
    /\ uploadFiles = <<>>
    /\ inflight = EmptyBag

\* C6: after an intake in which some files pass validation and some are
\* rejected, the files that pass are items of the active set, uploading.
C6_SiblingsStillUpload ==
    (last.kind = "intake" /\ last.accepted > 0 /\ last.rejected > 0) =>
        /\ Len(uploadFiles) = last.accepted
        /\ \A i \in DOMAIN uploadFiles : uploadFiles[i].status = "uploading"

\* C7: after a reply, onSuccess has been called if an outcome is "ok" and
\* onError if an outcome is "error" (both for a reply with both), and each at
\* most once.
C7_CallbacksPerReply ==
    last.kind = "reply" =>
        /\ (\E k \in DOMAIN last.results : last.results[k].status = "ok")
              => last.nSuccess = 1
        /\ (\E k \in DOMAIN last.results : last.results[k].status = "error")
              => Len(last.errArgs) = 1
        /\ last.nSuccess <= 1
        /\ Len(last.errArgs) <= 1

\* C7, witness: a reply with an "ok" and an "error" outcome, after which both
\* callbacks have been called.
C7_Witness ==
    /\ last.kind = "reply"
    /\ \E j, k \in DOMAIN last.results :
          last.results[j].status = "ok" /\ last.results[k].status = "error"
    /\ last.nSuccess = 1
    /\ Len(last.errArgs) = 1

\* The filenames of the "error" outcomes of a reply, in the order of the reply.
RECURSIVE NamesOfFailed(_)
NamesOfFailed(results) ==
    IF results = <<>> THEN <<>>
    ELSE IF Head(results).status = "error"
         THEN << Head(results).filename >> \o NamesOfFailed(Tail(results))
         ELSE NamesOfFailed(Tail(results))

\* C8 as stated: after a reply with an "error" outcome, the failure passed to
\* onError lists the filenames of exactly the failed files.
C8_FailureListsFailedFiles ==
    (last.kind = "reply"
        /\ \E k \in DOMAIN last.results : last.results[k].status = "error") =>
        /\ Len(last.errArgs) = 1
        /\ last.errArgs[1].files = NamesOfFailed(last.results)

\* C8 as amended: after a reply with an "error" and another outcome, the
\* failure passed to onError lists the filenames of exactly the failed files,
\* in the order of the reply; after a reply whose outcomes are all "error" it is
\* the fixed message "All uploads failed.", which lists no filename.
C8_FailureListsFailedFilesUnlessAll ==
    (last.kind = "reply"
        /\ \E k \in DOMAIN last.results : last.results[k].status = "error") =>
        /\ Len(last.errArgs) = 1
        /\ IF \E k \in DOMAIN last.results : last.results[k].status # "error"
           THEN /\ last.errArgs[1].text = "Some files failed to upload: "
                /\ last.errArgs[1].files = NamesOfFailed(last.results)
           ELSE last.errArgs[1] = [text |-> "All uploads failed.", files |-> <<>>]

\* C8, witness: a reply with three outcomes of which two failed, and the
\* failure lists the names of those two.
C8_Witness ==
    /\ last.kind = "reply"
    /\ Len(last.results) = 3
    /\ Len(last.errArgs) = 1
    /\ Len(last.errArgs[1].files) = 2
    /\ last.results[2].status = "ok"
    /\ last.errArgs[1].files
          = << last.results[1].filename, last.results[3].filename >>

\* C9: the requests in flight carry pairwise disjoint sets of item ids (and no
\* request is in flight twice).
C9_OneSubmissionPerItem ==
    \A r1 \in BagToSet(inflight) :
        /\ CopiesIn(r1, inflight) = 1
        /\ \A r2 \in BagToSet(inflight) :
              r1 # r2 => ReqIds(r1) \cap ReqIds(r2) = {}

\* C10: the active set holds one item per accepted file that has not been
\* dismissed: the ids of its items are those of the hook's files, and no two
\* items have the same id.
C10_OneItemPerFile ==
    /\ IdsOf(uploadFiles) = IdsOf(files)
    /\ \A i, j \in DOMAIN uploadFiles :
          i # j => uploadFiles[i].id # uploadFiles[j].id

\* C11: a dismissal leaves in the active set exactly the other items, each as
\* it was, and sends no request; and no other step takes an item out of the
\* active set.
C11_DismissalRemovesOnlyThatItem ==
    [][ /\ last'.kind = "remove" =>
            /\ uploadFiles' = FilterOutId(uploadFiles, last'.target)
            /\ last'.sent = <<>>
            /\ inflight' = inflight
        /\ last'.kind # "remove" => IdsOf(uploadFiles) \subseteq IdsOf(uploadFiles')
      ]_vars

\* C12: the active set never holds more than maxFiles (3) items.
C12_AtMostMaxFilesItems == Len(uploadFiles) <= 3

\* C13: the step that submits a set of items leaves every item of the set
\* uploading with no error message, whatever its status was before: the marking
\* is one update of uploadFiles, and the state before it is the state before
\* the handler.
C13_BatchMarkedAtOnce ==
    [][ \A k \in DOMAIN last'.sent :
            /\ ReqIds(last'.sent[k]) \subseteq IdsOf(uploadFiles')
            /\ \A i \in DOMAIN uploadFiles' :
                  uploadFiles'[i].id \in ReqIds(last'.sent[k]) =>
                      /\ uploadFiles'[i].status = "uploading"
                      /\ uploadFiles'[i].error = Undefined
      ]_vars

\* C13, witness: three files were taken in together, one request carries the
\* three of them, and the three items are uploading.
C13_Witness ==
    /\ last.kind = "intake"
    /\ Len(last.sent) = 1
    /\ Len(last.sent[1].ids) = 3
    /\ Len(uploadFiles) = 3
    /\ \A i \in DOMAIN uploadFiles :
          /\ uploadFiles[i].id \in ReqIds(last.sent[1])
          /\ uploadFiles[i].status = "uploading"

\* C14: an item has an error message only when its status is error.
C14_ErrorOnlyInError ==
    \A i \in DOMAIN uploadFiles :
        uploadFiles[i].error # Undefined => uploadFiles[i].status = "error"

\* C15: an intake that rejects n files leaves n messages more in the error
\* list, after the messages that were in it; no step takes a message out of
\* the list.
C15_ErrorListOnlyGrows ==
    [][ /\ Len(errors') >= Len(errors)
        /\ SubSeq(errors', 1, Len(errors)) = errors
        /\ last'.kind = "intake" => Len(errors') = Len(errors) + last'.rejected
      ]_vars

\* The outcomes of a reply that carry the filename.
OutcomesNamed(results, name) ==
    { k \in DOMAIN results : results[k].filename = name }

\* C16: a reply gives every item whose filename is that of an outcome the
\* status and the detail of the first outcome of that filename in the reply,
\* and leaves every item whose filename is that of no outcome as it was.
C16_FirstOutcomeOfTheNameWins ==
    [][ last'.kind = "reply" =>
          /\ Len(uploadFiles') = Len(uploadFiles)
          /\ \A i \in DOMAIN uploadFiles :
                LET hits == OutcomesNamed(last'.results, uploadFiles[i].file.name)
                IN  IF hits = {}
                    THEN uploadFiles'[i] = uploadFiles[i]
                    ELSE LET first == CHOOSE k \in hits : \A j \in hits : k <= j
                         IN  uploadFiles'[i] =
                                [uploadFiles[i] EXCEPT
                                    !.status = StatusFor(last'.results[first]),
                                    !.error = last'.results[first].detail]
      ]_vars

\* C16, witness: a reply held two outcomes of one filename, "error" then "ok",
\* and an item of that filename is in error.
C16_Witness ==
    /\ last.kind = "reply"
    /\ \E j, k \in DOMAIN last.results :
          /\ j < k
          /\ last.results[j].filename = last.results[k].filename
          /\ last.results[j].status = "error"
          /\ last.results[k].status = "ok"
          /\ \A h \in 1..(j - 1) : last.results[h].filename # last.results[j].filename
          /\ \E i \in DOMAIN uploadFiles :
                /\ uploadFiles[i].file.name = last.results[j].filename
                /\ uploadFiles[i].status = "error"

\* ------------------------------------------------- the parser's claims
\* The message has been parsed.
Parsed == grammar # "none"

\* The tier-1 cue as parseLLMResponse tests it.
Tier1Cue(text) == Includes(text, BulletBold) /\ Includes(text, BoldColon)

\* The tier-1 cue with the bold label followed by a colon after the bulleted
\* bold header, the two sharing no character.
Tier1CueApart(text) ==
    \E h, c \in DOMAIN text :
        /\ OccursAt(text, BulletBold, h)
        /\ OccursAt(text, BoldColon, c)
        /\ c >= h + Len(BulletBold)

\* The number of bold markers of a text, counted from offset q on without
\* overlap. A bold span takes two markers: a text of fewer than two markers
\* has fewer than two spans, and a text of two spans has at least two markers.
RECURSIVE MarkersFrom(_, _)
MarkersFrom(text, q) ==
    IF q > Len(text) THEN 0
    ELSE IF OccursAt(text, Bold, q) THEN 1 + MarkersFrom(text, q + 2)
    ELSE MarkersFrom(text, q + 1)

BoldMarkers(text) == MarkersFrom(text, 1)

\* C17: a parsed text with the tier-1 cue gives exactly one record.
C17_IndentedGivesOneRecord ==
    (Parsed /\ Tier1CueApart(response)) => Len(candidates) = 1

\* The offsets inside a text at which a bold all-caps header starts.
HeaderOffsets(text) == { q \in 1..(Len(text) - 1) : HeaderAt(text, q + 1) }

\* The sections of a text, split at each bold all-caps header, from the
\* offset b on.
RECURSIVE SectionsFrom(_, _)
SectionsFrom(text, b) ==
    LET later == { q \in HeaderOffsets(text) : q > b }
    IN  IF later = {} THEN << SubSeq(text, b + 1, Len(text)) >>
        ELSE << SubSeq(text, b + 1, Least(later)) >>
             \o SectionsFrom(text, Least(later))

\* The sections that yield a non-empty name, in the order of the text.
NamedSections(text) ==
    SelectSeq(SectionsFrom(text, 0), LAMBDA sec : BoldName(sec) # <<>>)

\* C18: for a parsed text with no tier-1 cue and at least two bold spans,
\* the records are as many as the sections (split at each bold all-caps
\* header) that yield a non-empty name, and the k-th record is the record of
\* the k-th such section.
C18_OneRecordPerNamedSection ==
    (Parsed /\ ~Tier1Cue(response) /\ BoldMarkers(response) >= 2) =>
        /\ Len(candidates) = Len(NamedSections(response))
        /\ \A k \in DOMAIN candidates :
              /\ candidates[k].name = BoldName(NamedSections(response)[k])
              /\ candidates[k] = parseCandidateSection(NamedSections(response)[k])

\* C18, witness: a text of three sections, the first without a name, has
\* given two records of different names.
C18_Witness ==
    /\ Parsed
    /\ ~Tier1Cue(response)
    /\ BoldMarkers(response) >= 4
    /\ Len(SectionsFrom(response, 0)) = 3
    /\ BoldName(SectionsFrom(response, 0)[1]) = <<>>
    /\ Len(candidates) = 2
    /\ candidates[1].name # candidates[2].name

\* C19: a parsed text with no tier-1 cue and fewer than two bold spans gives
\* exactly one record, whose additionalInfo is the text.
C19_FallbackKeepsTheText ==
    (Parsed /\ ~Tier1Cue(response) /\ BoldMarkers(response) < 2) =>
        /\ Len(candidates) = 1
        /\ candidates[1].additionalInfo = response

\* C20: the multi-section grammar is the one applied exactly when the text
\* has no tier-1 cue and at least two bold spans, and the fallback grammar is
\* applied to a text with no tier-1 cue and fewer than two bold spans.
C20_SectionsNeedTwoSpans ==
    Parsed =>
        /\ grammar = "sections" =>
              (~Tier1Cue(response) /\ BoldMarkers(response) >= 2)
        /\ (~Tier1Cue(response) /\ BoldMarkers(response) >= 4) =>
              grammar = "sections"
        /\ (~Tier1Cue(response) /\ BoldMarkers(response) < 2) =>
              grammar = "fallback"

\* C21: the result is that of one grammar, the first in the order indented,
\* multi-section, fallback whose cue the text has: the indented record or
\* nothing for a text with the tier-1 cue, the records of the named sections
\* for another text with a bold marker, the fallback record for the rest; a
\* grammar that gives nothing is not followed by another.
C21_OneGrammarByPriority ==
    Parsed =>
        IF Tier1Cue(response)
        THEN /\ grammar = "indented"
             /\ candidates = IF BoldName(response) # <<>>
                             THEN << parseIndentedFormat(response) >>
                             ELSE <<>>
        ELSE IF Includes(response, Bold)
        THEN /\ grammar = "sections"
             /\ candidates = [k \in DOMAIN NamedSections(response) |->
                                parseCandidateSection(NamedSections(response)[k])]
        ELSE /\ grammar = "fallback"
             /\ candidates = << parseFallbackFormat(response) >>

\* C21, witness: a text with the tier-1 cue and no bold all-caps header was
\* parsed by the indented grammar and gave nothing, where the fallback grammar
\* gives a record.
C21_Witness ==
    /\ Parsed
    /\ Tier1Cue(response)
    /\ grammar = "indented"
    /\ candidates = <<>>
    /\ parseFallbackFormat(response).name # <<>>

\* C22: every parsed text gives at least one record.
C22_AlwaysARecord == Parsed => Len(candidates) >= 1

Rendered == matches # <<>>

\* The percentages of the distances 0, 1 and 4.
ExamplesAsStated ==
    \A i \in DOMAIN distances :
        /\ distances[i] = 0 => matches[i] = 100
        /\ distances[i] = Thousand => matches[i] = 50
        /\ distances[i] = 4 * Thousand => matches[i] = 20

\* C24 as stated: of two rendered cards the one of the smaller distance shows
\* the strictly larger percentage; distance 0 shows 100, 1 shows 50, 4 shows 20.
C24_StrictlyDecreasing ==
    Rendered =>
        /\ \A i, j \in DOMAIN distances :
              distances[i] < distances[j] => matches[i] > matches[j]
        /\ ExamplesAsStated

\* C24 as amended: of two rendered cards the one of the smaller distance shows
\* a percentage that is not smaller; distance 0 shows 100, 1 shows 50, 4 shows
\* 20.
C24_NeverIncreasing ==
    Rendered =>
        /\ \A i, j \in DOMAIN distances :
              distances[i] < distances[j] => matches[i] >= matches[j]
        /\ ExamplesAsStated

\* C24, witness: the cards of distance 1 and 4 show 50 and 20.
C24_Witness ==
    /\ Rendered
    /\ distances = << Thousand, 4 * Thousand >>
    /\ matches = << 50, 20 >>

\* C25 as stated: a rendered percentage is above 0 and at most 100, and it is
\* 100 only for the distance 0.
C25_AboveZeroAndHundredOnlyAtZero ==
    Rendered =>
        \A i \in DOMAIN distances :
            /\ matches[i] > 0
            /\ matches[i] <= 100
            /\ matches[i] = 100 => distances[i] = 0

\* C25 as amended: a rendered percentage is a whole number from 0 to 100; it
\* is 100 at distance 0 and only for distances below 0.006, and it is 0 only
\* for distances above 199.
C25_WholePercentFromZeroToHundred ==
    Rendered =>
        \A i \in DOMAIN distances :
            /\ matches[i] \in 0..100
            /\ distances[i] = 0 => matches[i] = 100
            /\ matches[i] = 100 => distances[i] < 6
            /\ matches[i] = 0 => distances[i] > 199 * Thousand

\* C25, witness: a card of a distance just above 0 shows 100 and a card of
\* the distance 200 shows 0.
C25_Witness ==
    /\ Rendered
    /\ distances[1] > 0
    /\ matches[1] = 100
    /\ distances[2] = 200 * Thousand
    /\ matches[2] = 0

\* ------------------------------------------ the upload tracker, continued
\* C26: after the reply or the failure of a request has been delivered, no
\* item of the set the request submitted is uploading.
C26_NoneLeftUploading ==
    last.kind \in {"reply", "failure"} =>
        \A i \in DOMAIN uploadFiles :
            uploadFiles[i].id \in ReqIds(LastReq) =>
                uploadFiles[i].status # "uploading"

\* C27: onError has been called by the last step only if that step was the
\* failure of a request or a reply with an "error" outcome.
C27_FailureCallbackNeedsAFailure ==
    Len(last.errArgs) > 0 =>
        \/ last.kind = "failure"
        \/ /\ last.kind = "reply"
           /\ \E k \in DOMAIN last.results : last.results[k].status = "error"

\* ------------------------------------------------------ the prompt's claim
\* C28: while a search awaits its response the status is "submitted", and a
\* step that brings the status back to "ready" starts from "streaming" or
\* "error" with no search awaiting its response.
C28_SubmittedUntilAnswered ==
    [][ /\ awaiting' > 0 => status' = "submitted"
        /\ (status # "ready" /\ status' = "ready") =>
              /\ status \in {"streaming", "error"}
              /\ awaiting = 0
      ]_vars

====
